---------------------------- MODULE Spec2Model ----------------------------
(***************************************************************************)
(* A model of plaidsync/plaidapi.py: the PlaidAPI adapter over the vendor  *)
(* client.  One adapter call is in progress at a time (the adapter is      *)
(* synchronous); the vendor client is the environment and answers every    *)
(* request either with a response object or by raising plaid.ApiException. *)
(*                                                                         *)
(* Python values are written as follows.  None is the string "None"; a     *)
(* date/datetime object is a string naming it ("date(2024,1,5)"), so that  *)
(* isoformat() is a real conversion; a vendor enum is a record             *)
(* [enum, value]; a vendor model object and a dict are records; a list is  *)
(* a sequence.  An Optional[List] argument is <<>> for None and <<l>> for  *)
(* the list l.  Amounts are in cents.  Vendor objects are well typed: the  *)
(* attributes the code calls isoformat() on unconditionally are dates.     *)
(***************************************************************************)
EXTENDS Integers, Sequences, FiniteSets, TLC

VARIABLES
    pc,             \* "idle" | "sync" | "range" | "done": where the adapter is
    op,             \* the adapter operation of the current (or last) call
    args,           \* its arguments
    requests,       \* the vendor requests issued by this call, in order
    responses,      \* the vendor's answers to them, in order
    transactions,   \* local of get_transactions
    has_more,       \* local of get_transactions
    next_cursor,    \* local of get_transactions
    total_transactions, \* local of the range-mode get_transactions
    callbacks,      \* status_callback invocations of the range-mode call
    ledger,         \* vendor side: the transactions in the requested range
    outcome         \* how the call ended: a return value or a raised exception

vars == <<pc, op, args, requests, responses, transactions, has_more,
          next_cursor, total_transactions, callbacks, ledger, outcome>>

-----------------------------------------------------------------------------
(* Bounds of the model *)

\* the vendor answers at most this many transactions_sync requests per call
MaxPages == 3
\* the vendor holds at most this many transactions in a requested date range
MaxTotal == 3
\* the vendor delivers at most this many transactions per range-mode page
MaxCount == 2

-----------------------------------------------------------------------------
(* Python values *)

None == "None"

Truthy(x) == x # None /\ x # ""

\* date.isoformat() / datetime.isoformat()
isoformat(d) ==
    CASE d = "date(2024,1,4)" -> "2024-01-04"
      [] d = "date(2024,1,5)" -> "2024-01-05"
      [] d = "date(2023,12,30)" -> "2023-12-30"
      [] d = "date(2023,12,31)" -> "2023-12-31"
      [] d = "datetime(2023,12,31,10,0,tz=utc)" -> "2023-12-31T10:00:00+00:00"
      [] d = "datetime(2025,6,1,0,0,tz=utc)" -> "2025-06-01T00:00:00+00:00"

\* str() of a vendor enum value
str(e) == e.value

\* ModelNormal.to_dict() of a flat vendor object
to_dict(o) == [k \in DOMAIN o |-> o[k]]

\* ModelNormal.get(name, default)
get(o, k, default) == IF k \in DOMAIN o THEN o[k] ELSE default

-----------------------------------------------------------------------------
(* What the vendor may answer *)

Tokens == {"access-A", "access-B"}

Cursors == {"", "c1", "c2"}

t1 == [transaction_id |-> "tx1", account_id |-> "acc1", amount |-> 1250,
       iso_currency_code |-> "USD", category |-> <<"Food">>,
       category_id |-> "13005000", date |-> "date(2024,1,5)",
       name |-> "COFFEE 123", pending |-> FALSE,
       pending_transaction_id |-> None, account_owner |-> None,
       authorized_date |-> "date(2024,1,4)", datetime |-> None,
       payment_channel |-> "in store", merchant_name |-> "Cafe"]

t2 == [transaction_id |-> "tx2", account_id |-> "acc2", amount |-> -300,
       iso_currency_code |-> "USD", category |-> <<"Transfer">>,
       category_id |-> "21000000", date |-> "date(2023,12,31)",
       name |-> "REFUND", pending |-> TRUE,
       pending_transaction_id |-> "tx0", account_owner |-> None,
       authorized_date |-> "date(2023,12,30)",
       datetime |-> "datetime(2023,12,31,10,0,tz=utc)",
       payment_channel |-> "online", merchant_name |-> None]

t3 == [t1 EXCEPT !.transaction_id = "tx3", !.amount = 999]

\* the 'added', 'modified' and 'removed' lists of a transactions_sync page
PageContents ==
    { [added |-> <<>>, modified |-> <<>>, removed |-> <<>>],
      [added |-> <<t1>>, modified |-> <<t3>>,
       removed |-> <<[transaction_id |-> "tx2"]>>],
      [added |-> <<t1, t2>>, modified |-> <<>>, removed |-> <<>>],
      [added |-> <<t2, t1>>, modified |-> <<t3>>, removed |-> <<>>] }

\* TransactionsSyncResponse
SyncPages ==
    { [kind |-> "ok", added |-> p.added, modified |-> p.modified,
       removed |-> p.removed, has_more |-> h, next_cursor |-> c] :
         p \in PageContents, h \in BOOLEAN, c \in Cursors }

\* plaid.ApiException.body: the text of the vendor's error response.  It is
\* a JSON object with some members, some other JSON value, or no JSON at all.
ErrorCodes == {"NO_ACCOUNTS", "ITEM_LOGIN_REQUIRED", "INVALID_ACCESS_TOKEN",
               "no_accounts"}

ErrorMessages == {"bad state", "the login details have changed"}

WellFormedBodies ==
    { [json |-> "object",
       members |-> [error_code |-> c, error_message |-> m,
                    error_type |-> "ITEM_ERROR"]] :
         c \in ErrorCodes, m \in ErrorMessages }

MalformedBodies ==
    { [json |-> "invalid"],
      [json |-> "array"],
      [json |-> "object", members |-> [message |-> "Bad Gateway"]],
      [json |-> "object", members |-> [error_code |-> "NO_ACCOUNTS"]],
      [json |-> "object", members |-> [error_message |-> "bad state"]] }

Bodies == WellFormedBodies \cup MalformedBodies

ApiExceptions == { [kind |-> "ApiException", body |-> b] : b \in Bodies }


a1 == [account_id |-> "acc1", name |-> "Checking", official_name |-> None,
       type |-> [enum |-> "AccountType", value |-> "depository"],
       subtype |-> [enum |-> "AccountSubtype", value |-> "checking"],
       mask |-> "0000",
       balances |-> [available |-> 10000, current |-> 11000, limit |-> None,
                     iso_currency_code |-> "USD",
                     unofficial_currency_code |-> None]]

a2 == [account_id |-> "acc2", name |-> "Card", official_name |-> "Gold Card",
       type |-> [enum |-> "AccountType", value |-> "credit"],
       subtype |-> [enum |-> "AccountSubtype", value |-> "credit card"],
       mask |-> "3333", verification_status |-> "automatically_verified",
       balances |-> [available |-> None, current |-> 41000, limit |-> 200000,
                     iso_currency_code |-> "USD",
                     unofficial_currency_code |-> None]]

\* AccountsGetResponse.accounts
AccountLists == {<<>>, <<a1>>, <<a1, a2>>, <<a2, a1>>}

products_transactions == [enum |-> "Products", value |-> "transactions"]

item1 == [item_id |-> "item-1", webhook |-> None,
          available_products |-> <<[enum |-> "Products", value |-> "balance"]>>,
          billed_products |-> <<products_transactions>>,
          consent_expiration_time |-> None, update_type |-> "background",
          institution_id |-> "ins_1", products |-> <<products_transactions>>]

item2 == [item1 EXCEPT !.item_id = "item-2", !.institution_id = "ins_2",
            !.consent_expiration_time = "datetime(2025,6,1,0,0,tz=utc)"]

\* ItemGetResponse
ItemGetResponses ==
    { [kind |-> "ok", item |-> item1,
       status |-> [transactions |->
                     [last_failed_update |-> None,
                      last_successful_update |-> "datetime(2023,12,31,10,0,tz=utc)"]]],
      [kind |-> "ok", item |-> item2,
       status |-> [transactions |->
                     [last_failed_update |-> "datetime(2023,12,31,10,0,tz=utc)",
                      last_successful_update |-> None]]] }

LinkTokens == {"link-sandbox-1", "link-sandbox-2"}

PublicTokens == {"public-sandbox-1", "public-sandbox-2"}

-----------------------------------------------------------------------------
(* Serialization of vendor objects to raw_data.  The value of a serialize_*
   function is written with its Python type, [type, items] for a dict and
   [type] for None, so that a dict can be told from None. *)

dict(items) == [type |-> "dict", items |-> items]

NoneValue == [type |-> "NoneType"]

serialize_account_base(obj) ==
  dict(
    [account_id |-> obj.account_id,
     balances |-> to_dict(obj.balances),
     mask |-> obj.mask,
     name |-> obj.name,
     official_name |-> obj.official_name,
     type |-> str(obj.type),
     subtype |-> str(obj.subtype),
     verification_status |-> get(obj, "verification_status", None),
     persistent_account_id |-> get(obj, "persistent_account_id", None)])

serialize_item(obj) ==
  dict(
    [item_id |-> obj.item_id,
     webhook |-> obj.webhook,
     available_products |->
        [i \in DOMAIN obj.available_products |-> str(obj.available_products[i])],
     billed_products |->
        [i \in DOMAIN obj.billed_products |-> str(obj.billed_products[i])],
     consent_expiration_time |->
        IF Truthy(obj.consent_expiration_time)
        THEN isoformat(obj.consent_expiration_time)
        ELSE None,
     update_type |-> obj.update_type,
     institution_id |-> obj.institution_id,
     products |-> [i \in DOMAIN obj.products |-> str(obj.products[i])]])

\* the dict that serialize_transaction builds in its local 'data'
serialize_transaction_data(obj) ==
    [account_id |-> obj.account_id,
     iso_currency_code |-> obj.iso_currency_code,
     category |-> obj.category,
     category_id |-> obj.category_id,
     date |-> isoformat(obj.date),
     name |-> obj.name,
     pending |-> obj.pending,
     pending_transaction_id |-> obj.pending_transaction_id,
     account_owner |-> obj.account_owner,
     transaction_id |-> obj.transaction_id,
     authorized_date |-> isoformat(obj.authorized_date),
     datetime |-> IF Truthy(obj.datetime) THEN isoformat(obj.datetime) ELSE None,
     payment_channel |-> obj.payment_channel]

\* serialize_transaction fills 'data' and ends without a return statement:
\* its value is None
serialize_transaction(obj) ==
    LET data == dict(serialize_transaction_data(obj)) IN NoneValue

-----------------------------------------------------------------------------
(* The records the adapter returns *)

AccountBalance(data) ==
    [raw_data |-> serialize_account_base(data),
     account_id |-> data.account_id,
     account_name |-> data.name,
     account_type |-> str(data.type),
     account_subtype |-> str(data.subtype),
     account_number |-> data.mask,
     balance_current |-> data.balances.current,
     balance_available |-> data.balances.available,
     balance_limit |-> data.balances.limit,
     currency_code |-> data.balances.iso_currency_code]

AccountInfo(data) ==
    [raw_data |-> serialize_item(data.item),
     item_id |-> data.item.item_id,
     institution_id |-> data.item.institution_id,
     ts_consent_expiration |-> data.item.consent_expiration_time,
     ts_last_failed_update |-> data.status.transactions.last_failed_update,
     ts_last_successful_update |-> data.status.transactions.last_successful_update]

Transaction(data) ==
    [raw_data |-> serialize_transaction(data),
     account_id |-> data.account_id,
     date |-> data.date,
     transaction_id |-> data.transaction_id,
     pending |-> data.pending,
     merchant_name |-> data.merchant_name,
     amount |-> data.amount,
     currency_code |-> data.iso_currency_code]

\* list(map(f, l)) and [f(x) for x in l]
MapAccountBalance(l) == [i \in DOMAIN l |-> AccountBalance(l[i])]

MapTransaction(l) == [i \in DOMAIN l |-> Transaction(l[i])]

-----------------------------------------------------------------------------
(* Error translation *)

DomainErrors ==
    {"PlaidNoApplicableAccounts", "PlaidAccountUpdateNeeded", "PlaidUnknownError"}

\* PlaidError.__init__: the exception object of class cls built from the
\* parsed payload, or the KeyError the subscript raises
PlaidError(cls, plaid_error) ==
    IF "error_code" \notin DOMAIN plaid_error
    THEN [type |-> "KeyError", key |-> "error_code"]
    ELSE IF "error_message" \notin DOMAIN plaid_error
    THEN [type |-> "KeyError", key |-> "error_message"]
    ELSE [type |-> cls,
          error_code |-> plaid_error.error_code,
          error_message |-> plaid_error.error_message]

\* the class raise_plaid picks for an error code
ErrorClassNoAccountsOnly(error_code) ==
    IF error_code = "NO_ACCOUNTS"
    THEN "PlaidNoApplicableAccounts"
    ELSE "PlaidUnknownError"

ErrorClass(error_code) ==
    IF error_code = "NO_ACCOUNTS"
    THEN "PlaidNoApplicableAccounts"
    ELSE IF error_code = "ITEM_LOGIN_REQUIRED"
    THEN "PlaidAccountUpdateNeeded"
    ELSE "PlaidUnknownError"

\* raise_plaid(ex): the exception that leaves raise_plaid
raise_plaid(ex) ==
    IF ex.body.json = "invalid"
    THEN [type |-> "JSONDecodeError"]
    ELSE IF ex.body.json # "object"
    THEN [type |-> "TypeError"]
    ELSE LET response == ex.body.members IN
         IF "error_code" \notin DOMAIN response
         THEN [type |-> "KeyError", key |-> "error_code"]
         ELSE PlaidError(ErrorClass(response.error_code), response)

\* wrap_plaid_error: how a call of the wrapped f ends, given how f ended.
\* An ApiException is handed to raise_plaid; anything else passes.
wrap_plaid_error(result) ==
    IF result.kind = "raise" /\ result.exc.type = "ApiException"
    THEN [kind |-> "raise", exc |-> raise_plaid(result.exc.ex)]
    ELSE result

Return(v) == [kind |-> "return", value |-> v]

Raise(ex) == [kind |-> "raise", exc |-> [type |-> "ApiException", ex |-> ex]]

-----------------------------------------------------------------------------
(* The state after PlaidAPI.__init__, and the frame of a call *)

\* PlaidAPI keeps nothing but the client handle (__init__), so no call
\* depends on an earlier one: a behaviour is one call on a fresh adapter
Ready == pc = "idle"

Init ==
    /\ pc = "idle"
    /\ op = "none"
    /\ args = <<>>
    /\ requests = <<>>
    /\ responses = <<>>
    /\ transactions = <<>>
    /\ has_more = FALSE
    /\ next_cursor = ""
    /\ total_transactions = 0
    /\ callbacks = <<>>
    /\ ledger = <<>>
    /\ outcome = [kind |-> "none"]

\* a call that is not get_transactions has none of its locals
NoTransactionLocals ==
    /\ transactions' = <<>>
    /\ has_more' = FALSE
    /\ next_cursor' = ""
    /\ total_transactions' = 0
    /\ callbacks' = <<>>
    /\ ledger' = <<>>

\* an operation that makes one vendor call: the request it sends, the
\* vendor's answer and how the wrapped call ends
SingleCall(name, a, req, ans, result) ==
    /\ op' = name
    /\ args' = a
    /\ requests' = <<req>>
    /\ responses' = <<ans>>
    /\ outcome' = wrap_plaid_error(result)
    /\ pc' = "done"
    /\ NoTransactionLocals

-----------------------------------------------------------------------------
(* get_link_token *)

link_token_data_base ==
    [user |-> [client_user_id |-> "abc123"],
     client_name |-> "plaid-sync",
     country_codes |-> <<[enum |-> "CountryCode", value |-> "US"]>>,
     language |-> "en"]

\* d with d[k] = v set
SetItem(d, k, v) ==
    [x \in DOMAIN d \cup {k} |-> IF x = k THEN v ELSE d[x]]

link_token_data_both(access_token) ==
    SetItem(SetItem(link_token_data_base, "access_token", access_token),
            "products", <<products_transactions>>)

\* the dict 'data' that get_link_token passes to LinkTokenCreateRequest
link_token_data(access_token) ==
    IF Truthy(access_token)
    THEN SetItem(link_token_data_base, "access_token", access_token)
    ELSE SetItem(link_token_data_base, "products", <<products_transactions>>)

get_link_token ==
    /\ Ready
    /\ \E access_token \in {None, ""} \cup Tokens :
       \E ans \in { [kind |-> "ok", link_token |-> l] : l \in LinkTokens }
                    \cup ApiExceptions :
          SingleCall("get_link_token",
                     [access_token |-> access_token],
                     [endpoint |-> "link_token_create",
                      body |-> link_token_data(access_token)],
                     ans,
                     IF ans.kind = "ok" THEN Return(ans.link_token) ELSE Raise(ans))

-----------------------------------------------------------------------------
(* exchange_public_token, sandbox_reset_login, get_item_info,
   get_account_balance *)

exchange_public_token ==
    /\ Ready
    /\ \E public_token \in PublicTokens :
       \E ans \in { [kind |-> "ok", access_token |-> t] : t \in Tokens }
                    \cup ApiExceptions :
          SingleCall("exchange_public_token",
                     [public_token |-> public_token],
                     [endpoint |-> "item_public_token_exchange",
                      body |-> [public_token |-> public_token]],
                     ans,
                     IF ans.kind = "ok" THEN Return(ans.access_token) ELSE Raise(ans))

sandbox_reset_login ==
    /\ Ready
    /\ \E access_token \in Tokens :
       \E ans \in { [kind |-> "ok", reset_login |-> TRUE] } \cup ApiExceptions :
          SingleCall("sandbox_reset_login",
                     [access_token |-> access_token],
                     [endpoint |-> "/sandbox/item/reset_login",
                      body |-> [access_token |-> access_token]],
                     ans,
                     IF ans.kind = "ok" THEN Return(ans) ELSE Raise(ans))

get_item_info ==
    /\ Ready
    /\ \E access_token \in Tokens :
       \E ans \in ItemGetResponses \cup ApiExceptions :
          SingleCall("get_item_info",
                     [access_token |-> access_token],
                     [endpoint |-> "item_get",
                      body |-> [access_token |-> access_token]],
                     ans,
                     IF ans.kind = "ok" THEN Return(AccountInfo(ans)) ELSE Raise(ans))

get_account_balance ==
    /\ Ready
    /\ \E access_token \in Tokens :
       \E ans \in { [kind |-> "ok", accounts |-> l] : l \in AccountLists }
                    \cup ApiExceptions :
          SingleCall("get_account_balance",
                     [access_token |-> access_token],
                     [endpoint |-> "accounts_balance_get",
                      body |-> [access_token |-> access_token]],
                     ans,
                     IF ans.kind = "ok"
                     THEN Return(MapAccountBalance(ans.accounts))
                     ELSE Raise(ans))

-----------------------------------------------------------------------------
(* get_transactions: the cursor loop over transactions_sync *)

\* what a caller may pass as account_ids
AccountIdFilters == {<<>>, << <<"acc1">> >>}

\* the value has_more starts with
has_more_initial == TRUE

next_cursor_initial == ""

LoopCondAlways(h) == TRUE

\* the test of 'while has_more'
LoopCond(h) == h

CursorKept(cursor, res) == cursor

\* next_cursor = res.next_cursor
CursorAfter(cursor, res) == res.next_cursor

AccumulateAll(acc, res) ==
    acc \o MapTransaction(res.added) \o MapTransaction(res.modified)

\* transactions += [Transaction(t) for t in added]
Accumulate(acc, res) == acc \o MapTransaction(res.added)

\* TransactionsSyncRequest(access_token=access_token, cursor=next_cursor)
sync_request(access_token, cursor) ==
    [endpoint |-> "transactions_sync", access_token |-> access_token,
     cursor |-> cursor]

\* the call is entered: the locals are set, no request is sent yet
get_transactions_begin ==
    /\ Ready
    /\ \E access_token \in Tokens, account_ids \in AccountIdFilters :
          args' = [access_token |-> access_token,
                   start_date |-> "date(2024,1,4)",
                   end_date |-> "date(2024,1,5)",
                   account_ids |-> account_ids,
                   status_callback |-> None]
    /\ op' = "get_transactions"
    /\ pc' = "sync"
    /\ requests' = <<>>
    /\ responses' = <<>>
    /\ transactions' = <<>>
    /\ has_more' = has_more_initial
    /\ next_cursor' = next_cursor_initial
    /\ outcome' = [kind |-> "none"]
    /\ UNCHANGED <<total_transactions, callbacks, ledger>>

\* one pass of the loop body: a request is sent and the vendor answers with
\* a page, or raises and the wrapper ends the call
get_transactions_page ==
    /\ pc = "sync"
    /\ LoopCond(has_more)
    /\ Len(requests) < MaxPages
    /\ requests' = Append(requests, sync_request(args.access_token, next_cursor))
    /\ \E res \in SyncPages \cup ApiExceptions :
          /\ responses' = Append(responses, res)
          /\ IF res.kind = "ok"
             THEN /\ has_more' = res.has_more
                  /\ next_cursor' = CursorAfter(next_cursor, res)
                  /\ transactions' = Accumulate(transactions, res)
                  /\ UNCHANGED <<pc, outcome>>
             ELSE /\ outcome' = wrap_plaid_error(Raise(res))
                  /\ pc' = "done"
                  /\ UNCHANGED <<has_more, next_cursor, transactions>>
    /\ UNCHANGED <<op, args, total_transactions, callbacks, ledger>>

\* the loop test fails: return transactions
get_transactions_return ==
    /\ pc = "sync"
    /\ ~LoopCond(has_more)
    /\ outcome' = wrap_plaid_error(Return(transactions))
    /\ pc' = "done"
    /\ UNCHANGED <<op, args, requests, responses, transactions, has_more,
                   next_cursor, total_transactions, callbacks, ledger>>

Next ==
    \/ get_link_token
    \/ exchange_public_token
    \/ sandbox_reset_login
    \/ get_item_info
    \/ get_account_balance
    \/ get_transactions_begin
    \/ get_transactions_page
    \/ get_transactions_return

Spec == Init /\ [][Next]_vars

-----------------------------------------------------------------------------
(* get_transactions in range mode: the loop of the adapter's other version,
   which fetches the transactions of [start_date, end_date] page by page
   until the accumulated count reaches the total the vendor reports *)

\* what the vendor may hold for the requested range
Ledgers == UNION { [1..n -> {t1, t2}] : n \in 0..MaxTotal }

Min(a, b) == IF a < b THEN a ELSE b

\* the number of transactions the vendor has delivered in the pages rs
RECURSIVE Delivered(_)
Delivered(rs) ==
    IF rs = <<>> THEN 0
    ELSE Delivered(SubSeq(rs, 1, Len(rs) - 1))
         + (IF rs[Len(rs)].kind = "ok" THEN Len(rs[Len(rs)].transactions) ELSE 0)

\* the pages the vendor may answer with next: the next transactions of the
\* range, at least one while some are left, with the total of the range
RangePages ==
    LET d == Delivered(responses)
        left == Len(ledger) - d
        sizes == IF left = 0 THEN {0} ELSE 1..Min(MaxCount, left)
    IN  { [kind |-> "ok", transactions |-> SubSeq(ledger, d + 1, d + n),
           total_transactions |-> Len(ledger)] : n \in sizes }

RangeLoopCondFirstOnly(reqs, acc, total) == reqs = <<>>

\* the loop goes on until the accumulated count reaches the reported total,
\* which is known only after the first page
RangeLoopCond(reqs, acc, total) == reqs = <<>> \/ Len(acc) < total

RangeAccumulate(acc, res) == acc \o MapTransaction(res.transactions)

get_transactions_range_begin ==
    /\ Ready
    /\ \E access_token \in Tokens, cb \in {None, "status_callback"} :
          args' = [access_token |-> access_token,
                   start_date |-> "date(2023,12,30)",
                   end_date |-> "date(2024,1,5)",
                   account_ids |-> <<>>,
                   status_callback |-> cb]
    /\ ledger' \in Ledgers
    /\ op' = "get_transactions_range"
    /\ pc' = "range"
    /\ requests' = <<>>
    /\ responses' = <<>>
    /\ transactions' = <<>>
    /\ total_transactions' = 0
    /\ callbacks' = <<>>
    /\ outcome' = [kind |-> "none"]
    /\ UNCHANGED <<has_more, next_cursor>>

get_transactions_range_page ==
    /\ pc = "range"
    /\ RangeLoopCond(requests, transactions, total_transactions)
    /\ requests' = Append(requests,
                          [endpoint |-> "transactions_get",
                           access_token |-> args.access_token,
                           start_date |-> args.start_date,
                           end_date |-> args.end_date])
    /\ \E res \in RangePages \cup ApiExceptions :
          /\ responses' = Append(responses, res)
          /\ IF res.kind = "ok"
             THEN /\ transactions' = RangeAccumulate(transactions, res)
                  /\ total_transactions' = res.total_transactions
                  /\ callbacks' =
                        IF args.status_callback # None
                        THEN Append(callbacks,
                                    <<Len(transactions'), res.total_transactions>>)
                        ELSE callbacks
                  /\ UNCHANGED <<pc, outcome>>
             ELSE /\ outcome' = wrap_plaid_error(Raise(res))
                  /\ pc' = "done"
                  /\ UNCHANGED <<transactions, total_transactions, callbacks>>
    /\ UNCHANGED <<op, args, ledger, has_more, next_cursor>>

get_transactions_range_return ==
    /\ pc = "range"
    /\ ~RangeLoopCond(requests, transactions, total_transactions)
    /\ outcome' = wrap_plaid_error(Return(transactions))
    /\ pc' = "done"
    /\ UNCHANGED <<op, args, requests, responses, transactions, has_more,
                   next_cursor, total_transactions, callbacks, ledger>>

RangeNext ==
    \/ get_transactions_range_begin
    \/ get_transactions_range_page
    \/ get_transactions_range_return

\* The adapter is synchronous: a pass of the loop runs as soon as the vendor
\* has answered the one before, and the return follows the failed loop test.
RangeSpec ==
    /\ Init
    /\ [][RangeNext]_vars
    /\ WF_vars(get_transactions_range_page)
    /\ WF_vars(get_transactions_range_return)

-----------------------------------------------------------------------------
(* Properties *)

Last(q) == q[Len(q)]

IsDomainError(o) == o.kind = "raise" /\ o.exc.type \in DomainErrors

Returned == pc = "done" /\ outcome.kind = "return"

\* the vendor raised on the last request of the call
VendorRaised == responses # <<>> /\ Last(responses).kind = "ApiException"

\* the 'added' entries of the pages rs, in page order
RECURSIVE ConcatAdded(_)
ConcatAdded(rs) ==
    IF rs = <<>> THEN <<>>
    ELSE ConcatAdded(SubSeq(rs, 1, Len(rs) - 1)) \o Last(rs).added

\* r is the Transaction record of the vendor entry e
RecordOf(r, e) ==
    /\ r.account_id = e.account_id
    /\ r.date = e.date
    /\ r.transaction_id = e.transaction_id
    /\ r.pending = e.pending
    /\ r.merchant_name = e.merchant_name
    /\ r.amount = e.amount
    /\ r.currency_code = e.iso_currency_code

\* C1: in get_transactions every request is a transactions_sync request that
\* the vendor answered once; every answer before the last one is a page with
\* has_more true, so no request follows a page with has_more false; and the
\* call has returned only after a page with has_more false, the last one.
C1_OneFetchPerPage ==
    op = "get_transactions" =>
      /\ Len(requests) = Len(responses)
      /\ \A i \in 1..Len(requests) : requests[i].endpoint = "transactions_sync"
      /\ \A i \in 1..(Len(responses) - 1) :
            responses[i].kind = "ok" /\ responses[i].has_more
      /\ Returned =>
            /\ responses # <<>>
            /\ Last(responses).kind = "ok"
            /\ ~Last(responses).has_more

C1_Witness ==
    /\ op = "get_transactions"
    /\ Returned
    /\ Len(requests) = 3
    /\ responses[1].has_more
    /\ responses[2].has_more
    /\ ~responses[3].has_more

\* C2: the first transactions_sync request carries the empty cursor, request
\* k+1 carries the next_cursor of response k, and every request carries the
\* access token of the call.  So a later request carries the empty cursor or
\* an older cursor only if the vendor's latest next_cursor has that value.
C2_CursorChain ==
    op = "get_transactions" =>
      \A k \in 1..Len(requests) :
        /\ requests[k].access_token = args.access_token
        /\ k = 1 => requests[k].cursor = ""
        /\ k > 1 =>
             /\ requests[k].cursor = responses[k - 1].next_cursor
             /\ responses[k - 1].next_cursor # "" => requests[k].cursor # ""
             /\ \A j \in 1..(k - 2) :
                  responses[j].next_cursor # responses[k - 1].next_cursor
                     => requests[k].cursor # responses[j].next_cursor

C2_Witness ==
    /\ op = "get_transactions"
    /\ Len(requests) = 3
    /\ args.access_token = "access-B"
    /\ responses[1].next_cursor = "c1"
    /\ responses[2].next_cursor = "c2"
    /\ requests[1].cursor = ""
    /\ requests[2].cursor = "c1"
    /\ requests[3].cursor = "c2"
    /\ requests[3].access_token = "access-B"

\* C3: what get_transactions returns is one Transaction record for each
\* entry of the 'added' lists of the pages fetched, in page order and in the
\* order within each page: nothing else, nothing left out, whatever the
\* account_ids, start_date and end_date of the call.
C3_ResultIsAddedConcatenated ==
    (op = "get_transactions" /\ Returned) =>
      LET expected == ConcatAdded(responses) IN
      /\ Len(outcome.value) = Len(expected)
      /\ \A i \in 1..Len(expected) : RecordOf(outcome.value[i], expected[i])

C3_Witness ==
    /\ op = "get_transactions"
    /\ Returned
    /\ args.account_ids = << <<"acc1">> >>
    /\ Len(responses) = 2
    /\ responses[1].added = <<t2, t1>>
    /\ responses[1].modified = <<t3>>
    /\ responses[2].added = <<t1>>
    /\ responses[2].removed # <<>>
    /\ Len(outcome.value) = 3
    /\ outcome.value[1].transaction_id = "tx2"
    /\ outcome.value[1].account_id = "acc2"
    /\ outcome.value[2].transaction_id = "tx1"
    /\ outcome.value[3].transaction_id = "tx1"

\* the vendor's error payload has an error_code and an error_message
PayloadGiven ==
    /\ VendorRaised
    /\ Last(responses).body.json = "object"
    /\ {"error_code", "error_message"} \subseteq DOMAIN Last(responses).body.members

\* C4: in each of the six operations, when the vendor raises with a payload
\* (error_code, error_message), the call raises PlaidNoApplicableAccounts
\* iff the code is NO_ACCOUNTS, PlaidAccountUpdateNeeded iff it is
\* ITEM_LOGIN_REQUIRED and PlaidUnknownError otherwise, with the payload's
\* error_code and error_message.
C4_ErrorMapping ==
    (pc = "done" /\ PayloadGiven) =>
      LET payload == Last(responses).body.members
          raised == outcome.exc
      IN  /\ outcome.kind = "raise"
          /\ raised.type \in DomainErrors
          /\ (raised.type = "PlaidNoApplicableAccounts")
                <=> (payload.error_code = "NO_ACCOUNTS")
          /\ (raised.type = "PlaidAccountUpdateNeeded")
                <=> (payload.error_code = "ITEM_LOGIN_REQUIRED")
          /\ (raised.type = "PlaidUnknownError")
                <=> (payload.error_code \notin {"NO_ACCOUNTS", "ITEM_LOGIN_REQUIRED"})
          /\ raised.error_code = payload.error_code
          /\ raised.error_message = payload.error_message

C4_Witness ==
    /\ op = "get_item_info"
    /\ pc = "done"
    /\ PayloadGiven
    /\ Last(responses).body.members.error_code = "ITEM_LOGIN_REQUIRED"
    /\ Last(responses).body.members.error_message = "bad state"
    /\ outcome.exc.type = "PlaidAccountUpdateNeeded"
    /\ outcome.exc.error_message = "bad state"

\* C5: whenever the vendor client raised ApiException in an operation,
\* whatever its body, the operation ends raising one of the three domain
\* errors and nothing else.
C5_OnlyDomainErrors ==
    (pc = "done" /\ VendorRaised) => IsDomainError(outcome)

\* C6: the request get_link_token builds has either the products field
\* [transactions] or an access_token field, never both and never neither:
\* products alone when no access token is given, that access token alone
\* when one is given.
C6_LinkTokenShapes ==
    (op = "get_link_token" /\ requests # <<>>) =>
      LET data == requests[1].body
          has_token == "access_token" \in DOMAIN data
          has_products == "products" \in DOMAIN data
      IN  /\ has_token # has_products
          /\ args.access_token = None =>
                has_products /\ data.products = <<products_transactions>>
          /\ args.access_token \in Tokens =>
                has_token /\ data.access_token = args.access_token
          /\ has_products => data.products = <<products_transactions>>

C6_Witness ==
    /\ op = "get_link_token"
    /\ pc = "done"
    /\ args.access_token = "access-A"
    /\ requests[1].body.access_token = "access-A"
    /\ "products" \notin DOMAIN requests[1].body

\* C7: when a page fetch of get_transactions fails with a vendor error, the
\* call ends with a domain error and returns nothing; the failed request is
\* the only failed one and the last one of the call.
C7_FailedPageEndsCall ==
    (op = "get_transactions" /\ VendorRaised) =>
      /\ pc = "done"
      /\ IsDomainError(outcome)
      /\ "value" \notin DOMAIN outcome
      /\ Len(requests) = Len(responses)
      /\ \A i \in 1..(Len(responses) - 1) : responses[i].kind = "ok"

\* no request of the call was issued once the accumulated count had reached
\* the total reported by then
NoOverFetch ==
    \A i \in 2..Len(requests) :
       Delivered(SubSeq(responses, 1, i - 1)) < responses[i - 1].total_transactions

\* C8: in range mode, against a vendor that reports totalTransactions = N
\* and delivers the N transactions over its pages, the call that returns
\* returns exactly N records, having fetched each of them once and issued no
\* request after the N-th; and the loop ends.
C8_RangeReturnsTotal ==
    /\ [](( op = "get_transactions_range" /\ Returned) =>
            /\ Len(outcome.value) = Len(ledger)
            /\ Delivered(responses) = Len(ledger)
            /\ \A i \in 1..Len(ledger) : RecordOf(outcome.value[i], ledger[i])
            /\ NoOverFetch)
    /\ (pc = "range") ~> (pc = "done")

C8_Witness ==
    /\ op = "get_transactions_range"
    /\ Returned
    /\ Len(ledger) = 3
    /\ Len(responses) = 2
    /\ Len(outcome.value) = 3
    /\ callbacks = << <<2, 3>>, <<3, 3>> >>

\* raw holds the value v under key k
Holds(raw, k, v) ==
    raw.type = "dict" /\ k \in DOMAIN raw.items /\ raw.items[k] = v

\* raw holds the date or datetime v, or None, under key k in its text form
HoldsTime(raw, k, v) ==
    Holds(raw, k, IF Truthy(v) THEN isoformat(v) ELSE None)

\* raw holds the balance v under key k of its 'balances'
HoldsBalance(raw, k, v) ==
    /\ raw.type = "dict"
    /\ "balances" \in DOMAIN raw.items
    /\ k \in DOMAIN raw.items.balances
    /\ raw.items.balances[k] = v

AccountBalanceReconstructs(r) ==
    /\ Holds(r.raw_data, "account_id", r.account_id)
    /\ Holds(r.raw_data, "name", r.account_name)
    /\ Holds(r.raw_data, "type", r.account_type)
    /\ Holds(r.raw_data, "subtype", r.account_subtype)
    /\ Holds(r.raw_data, "mask", r.account_number)
    /\ HoldsBalance(r.raw_data, "current", r.balance_current)
    /\ HoldsBalance(r.raw_data, "available", r.balance_available)
    /\ HoldsBalance(r.raw_data, "limit", r.balance_limit)
    /\ HoldsBalance(r.raw_data, "iso_currency_code", r.currency_code)

AccountInfoReconstructs(r) ==
    /\ Holds(r.raw_data, "item_id", r.item_id)
    /\ Holds(r.raw_data, "institution_id", r.institution_id)
    /\ HoldsTime(r.raw_data, "consent_expiration_time", r.ts_consent_expiration)
    /\ HoldsTime(r.raw_data, "last_failed_update", r.ts_last_failed_update)
    /\ HoldsTime(r.raw_data, "last_successful_update", r.ts_last_successful_update)

TransactionReconstructs(r) ==
    /\ Holds(r.raw_data, "account_id", r.account_id)
    /\ HoldsTime(r.raw_data, "date", r.date)
    /\ Holds(r.raw_data, "transaction_id", r.transaction_id)
    /\ Holds(r.raw_data, "pending", r.pending)
    /\ Holds(r.raw_data, "merchant_name", r.merchant_name)
    /\ Holds(r.raw_data, "amount", r.amount)
    /\ Holds(r.raw_data, "iso_currency_code", r.currency_code)

\* C9: every record the adapter returns has a raw_data mapping that holds,
\* under the vendor's name of the field, the value of each typed field of
\* the record.
C9_RawDataReconstructs ==
    Returned =>
      /\ op = "get_account_balance" =>
            \A i \in 1..Len(outcome.value) :
               AccountBalanceReconstructs(outcome.value[i])
      /\ op = "get_item_info" => AccountInfoReconstructs(outcome.value)
      /\ op = "get_transactions" =>
            \A i \in 1..Len(outcome.value) :
               TransactionReconstructs(outcome.value[i])

\* C10: get_transactions has issued at least one transactions_sync request
\* when it completes, it completes only by returning or by raising a domain
\* error, and only after the vendor returned a page with has_more false or
\* raised; while every page so far had has_more true the call has not
\* completed.
C10_CompletionOnlyByVendor ==
    op = "get_transactions" =>
      /\ pc = "done" =>
            /\ Len(requests) >= 1
            /\ outcome.kind = "return" \/ IsDomainError(outcome)
            /\ VendorRaised \/ ~Last(responses).has_more
      /\ (\A i \in 1..Len(responses) :
             responses[i].kind = "ok" /\ responses[i].has_more) => pc = "sync"

=============================================================================
